---- MODULE Spec2Model ----
(***************************************************************************)
(* A model of chess-gif (src/main.py): a notation file is read and parsed, *)
(* every position of the game's mainline is rendered to temp/svg/<i>.svg,  *)
(* every vector file is rasterized to temp/png/<i>.png, the raster files   *)
(* are appended to an animation in the order of the integer value of their *)
(* names, the animation is optionally optimized, and temp is removed.      *)
(*                                                                         *)
(* The working directory (temp) and the output directory persist from one  *)
(* run of main to the next; everything else is local to a run.             *)
(***************************************************************************)
EXTENDS Naturals, Sequences, FiniteSets

\* ----------------------------------------------------------------- bounds
\* Longest mainline of the notation files of Spec.
MaxMoves == 1
\* Runs of main in the same working directory, one after the other.
MaxRuns == 2
\* Longest mainline of the notation files of SpecLong (names of two digits).
LongMoves == 11

\* ------------------------------------------------------------ Optional[T]
None == <<>>
Some(x) == <<x>>
Get(o) == o[1]

\* ------------------------------------------------------- notation files
\* A notation text is a sequence of tokens: 0 is a tag-pair line, a positive
\* number is a move of the mainline.  The empty text holds no game.
\* Two games of the same length differ in every move.
Openings == {1, 2}

GameText(v, n) == <<0>> \o [k \in 1..n |-> v]

PgnPath(name, v, n) == [name |-> name, variant |-> v, moves |-> n]

EmptyPgnPath == PgnPath("empty", 0, 0)
MissingPgnPath == PgnPath("missing", 0, 0)

\* The notation files on disk: path -> text.
FilesOfLengths(lengths) ==
    LET games == {PgnPath("game", v, n) : v \in Openings, n \in lengths}
    IN  [p \in games \cup {EmptyPgnPath} |->
            IF p = EmptyPgnPath THEN <<>> ELSE GameText(p.variant, p.moves)]

SmallFiles == FilesOfLengths(0..MaxMoves)
LongFiles == FilesOfLengths({LongMoves - 1, LongMoves})

OptimizedValues == {"new", "overwrite", "none", "fast"}

\* ---------------------------------------------------------------- paths
svg_folder_path == "temp/svg"
main_png_folder_path == Some("temp/png")
gif_path == [parent |-> "out", stem |-> "game", suffix |-> ".gif"]

TempPath(folder, stem, ext) == [folder |-> folder, stem |-> stem, ext |-> ext]

\* f"{i}": the decimal digits of i, most significant first.
RECURSIVE Fmt(_)
Fmt(i) == IF i < 10 THEN <<i>> ELSE Fmt(i \div 10) \o <<i % 10>>

\* int(stem): the value of a sequence of decimal digits.
RECURSIVE Int(_)
Int(s) == IF Len(s) = 0 THEN 0
          ELSE 10 * Int(SubSeq(s, 1, Len(s) - 1)) + s[Len(s)]

\* folder.glob("*.<ext>") on the working directory fs.
Glob(fs, folder, ext) == {p \in DOMAIN fs : p.folder = folder /\ p.ext = ext}

EmptyDir == [p \in {} |-> TRUE]

\* open(path, "w").write(data): creates the file or replaces its content.
WriteFile(fs, path, data) ==
    [p \in DOMAIN fs \cup {path} |-> IF p = path THEN data ELSE fs[p]]

\* --------------------------------------------------------- pure functions
\* read_pgn_file with the error of a missing file swallowed.
read_pgn_file_swallow(files, path) ==
    IF path \in DOMAIN files THEN [raised |-> FALSE, data |-> files[path]]
    ELSE [raised |-> FALSE, data |-> <<>>]

\* read_pgn_file, lines 15-18: open() raises when the file does not exist.
read_pgn_file(files, path) ==
    IF path \in DOMAIN files THEN [raised |-> FALSE, data |-> files[path]]
    ELSE [raised |-> TRUE, data |-> <<>>]

IsMove(t) == t > 0

pgn_to_game(text) ==
    IF text = <<>> THEN None ELSE Some([mainline |-> SelectSeq(text, IsMove)])

mainline_moves(g) == Get(g).mainline

\* chess.svg.board(board): the vector rendering of a position; a position is
\* the stack of the moves pushed on the initial board.
chess_svg_board(b) == [fmt |-> "svg", pos |-> b]

\* cairosvg.svg2png: the raster image of a vector rendering.
svg2png(svg) == [fmt |-> "png", pos |-> svg.pos]

\* imageio.imread: the image of a raster file.
imread(png) == png.pos

\* svg_to_png, lines 47-48: the raster file's path.
svg_to_png_path(svg_path, png_path) ==
    IF png_path = None
    THEN TempPath(svg_path.folder, svg_path.stem, "png")
    ELSE Get(png_path)

\* Line 55 with the stem of the vector file dropped.
svgs_to_pngs_path_fixed_name(svg_path, folder) ==
    IF folder # None THEN Some(TempPath(Get(folder), Fmt(0), "png")) ELSE None

\* svgs_to_pngs, line 55: the png_path handed to svg_to_png.
svgs_to_pngs_path(svg_path, folder) ==
    IF folder # None THEN Some(TempPath(Get(folder), svg_path.stem, "png")) ELSE None

\* The order of two names as text (what sorted() does without a key).
RECURSIVE TextLeq(_, _)
TextLeq(a, b) ==
    IF Len(a) = 0 THEN TRUE
    ELSE IF Len(b) = 0 THEN FALSE
    ELSE IF a[1] # b[1] THEN a[1] < b[1]
    ELSE TextLeq(Tail(a), Tail(b))

\* Line 65 without its key.
png_sort_leq_text(p, q) == TextLeq(p.stem, q.stem)

\* pngs_to_gif, line 65: key=lambda x: int(x.stem).
png_sort_leq(p, q) == Int(p.stem) <= Int(q.stem)

\* sorted(paths, key=...): the paths in ascending order of the key.
RECURSIVE Sorted(_)
Sorted(S) ==
    IF S = {} THEN <<>>
    ELSE LET least == CHOOSE p \in S : \A q \in S : png_sort_leq(p, q)
         IN  <<least>> \o Sorted(S \ {least})

optimized_gif_path(p) ==
    [parent |-> p.parent, stem |-> p.stem \o "_optimized", suffix |-> p.suffix]

\* pygifsicle.optimize(source, destination): the optimized animation.
gifsicle(gif) == [gif EXCEPT !.optimized = TRUE]

NewGif == [frames |-> <<>>, closed |-> FALSE, optimized |-> FALSE]

\* Lines 73-81 with new optimizing in place, as overwrite does.
optimize_branch_in_place(o, optimized) ==
    IF optimized \in {"new", "overwrite"}
    THEN [raised |-> FALSE, calls |-> 1, written |-> {gif_path},
          out |-> WriteFile(o, gif_path, gifsicle(o[gif_path]))]
    ELSE IF optimized = "none"
    THEN [raised |-> FALSE, calls |-> 0, written |-> {}, out |-> o]
    ELSE [raised |-> TRUE, calls |-> 0, written |-> {}, out |-> o]

\* pngs_to_gif, lines 73-81: what the optimized option does to the output
\* directory o once the animation is written.
optimize_branch(o, optimized) ==
    IF optimized = "new"
    THEN [raised |-> FALSE, calls |-> 1, written |-> {optimized_gif_path(gif_path)},
          out |-> WriteFile(o, optimized_gif_path(gif_path), gifsicle(o[gif_path]))]
    ELSE IF optimized = "overwrite"
    THEN [raised |-> FALSE, calls |-> 1, written |-> {gif_path},
          out |-> WriteFile(o, gif_path, gifsicle(o[gif_path]))]
    ELSE IF optimized = "none"
    THEN [raised |-> FALSE, calls |-> 0, written |-> {}, out |-> o]
    ELSE [raised |-> TRUE, calls |-> 0, written |-> {}, out |-> o]

\* Lines 99-103 without the null check.
main_after_parse_unchecked(g) == "render"

\* main, lines 99-103: the null check on the parsed game.
main_after_parse(g) == IF g = None THEN "return" ELSE "render"

\* Lines 103-106 with the removal of temp moved before pngs_to_gif.
main_after_rmtree_first(stage) ==
    IF stage = "raster" THEN "rmtree"
    ELSE IF stage = "rmtree" THEN "encode"
    ELSE IF stage = "optimize" THEN "return"
    ELSE "raster"

\* main, lines 103-106: the statement that follows each stage.
main_after(stage) ==
    IF stage = "render" THEN "raster"
    ELSE IF stage = "raster" THEN "encode"
    ELSE IF stage = "optimize" THEN "rmtree"
    ELSE "return"

\* ----------------------------------------------------------------- state
VARIABLES
    pgnFiles,        \* the notation files on disk
    temp,            \* the working directory: path -> file content
    out,             \* the output directory: path -> animation
    runs,            \* runs of main still to come
    pc,              \* the statement main is at ("idle": not running)
    result,          \* how the last run ended
    args,            \* the parsed command line
    png_folder_path, \* Optional: where svgs_to_pngs puts the raster files
    pgn,             \* the text read
    game,            \* Optional: the game parsed
    board,           \* game_to_svgs: the position
    i,               \* game_to_svgs: the next file's number
    todo,            \* svgs_to_pngs: the vector files still to rasterize
    png_files,       \* pngs_to_gif: the raster files still to append
    printed,         \* the diagnostic was printed
    stages,          \* history: the stages this run has entered
    staged,          \* history: the paths of temp this run has written
    emitted,         \* history: the paths of out this run has written
    calls,           \* history: pygifsicle invocations of this run
    temp0            \* history: temp when svgs_to_pngs was entered

vars == <<pgnFiles, temp, out, runs, pc, result, args, png_folder_path, pgn, game,
          board, i, todo, png_files, printed, stages, staged, emitted, calls, temp0>>

NoArgs == [pgn_path |-> MissingPgnPath, optimized |-> "new"]

Idle(files, n) ==
    /\ pgnFiles = files
    /\ temp = EmptyDir
    /\ out = EmptyDir
    /\ runs = n
    /\ pc = "idle"
    /\ result = "none"
    /\ args = NoArgs
    /\ png_folder_path = main_png_folder_path
    /\ pgn = <<>>
    /\ game = None
    /\ board = <<>>
    /\ i = 0
    /\ todo = {}
    /\ png_files = <<>>
    /\ printed = FALSE
    /\ stages = <<>>
    /\ staged = {}
    /\ emitted = {}
    /\ calls = 0
    /\ temp0 = EmptyDir

Init == Idle(SmallFiles, MaxRuns)

\* One run, on the long games.
InitLong == Idle(LongFiles, 1)

\* --------------------------------------------------------------- actions
\* main, lines 84-94: the command line is parsed.
StartRun ==
    /\ pc = "idle"
    /\ runs > 0
    /\ \E path \in DOMAIN pgnFiles \cup {MissingPgnPath}, o \in OptimizedValues :
          args' = [pgn_path |-> path, optimized |-> o]
    /\ runs' = runs - 1
    /\ pc' = "read"
    /\ result' = "none"
    /\ png_folder_path' = main_png_folder_path
    /\ pgn' = <<>>
    /\ game' = None
    /\ board' = <<>>
    /\ i' = 0
    /\ todo' = {}
    /\ png_files' = <<>>
    /\ printed' = FALSE
    /\ stages' = <<>>
    /\ staged' = {}
    /\ emitted' = {}
    /\ calls' = 0
    /\ temp0' = EmptyDir
    /\ UNCHANGED <<pgnFiles, temp, out>>

\* main, line 96.
ReadPgn ==
    /\ pc = "read"
    /\ LET r == read_pgn_file(pgnFiles, args.pgn_path)
       IN  /\ pgn' = r.data
           /\ pc' = IF r.raised THEN "idle" ELSE "parse"
           /\ result' = IF r.raised THEN "FileNotFoundError" ELSE result
    /\ stages' = Append(stages, "read")
    /\ UNCHANGED <<pgnFiles, temp, out, runs, args, png_folder_path, game, board, i,
                   todo, png_files, printed, staged, emitted, calls, temp0>>

\* main, lines 97-101.
ParseGame ==
    /\ pc = "parse"
    /\ game' = pgn_to_game(pgn)
    /\ stages' = Append(stages, "parse")
    /\ IF main_after_parse(game') = "return"
       THEN /\ printed' = TRUE
            /\ pc' = "idle"
            /\ result' = "returned early"
       ELSE /\ printed' = printed
            /\ pc' = "render"
            /\ result' = result
    /\ UNCHANGED <<pgnFiles, temp, out, runs, args, png_folder_path, pgn, board, i,
                   todo, png_files, staged, emitted, calls, temp0>>

\* game_to_svgs, lines 28-32: one board_to_svg (the initial position, then
\* one position per move).
BoardToSvg ==
    /\ pc = "render"
    /\ IF game = None
       THEN \* game.board() on None
            /\ pc' = "idle"
            /\ result' = "AttributeError"
            /\ stages' = Append(stages, "render")
            /\ UNCHANGED <<board, i, temp, staged>>
       ELSE /\ i <= Len(mainline_moves(game))
            /\ LET b == IF i = 0 THEN <<>> ELSE Append(board, mainline_moves(game)[i])
                   path == TempPath(svg_folder_path, Fmt(i), "svg")
               IN  /\ board' = b
                   /\ temp' = WriteFile(temp, path, chess_svg_board(b))
                   /\ staged' = staged \cup {path}
            /\ i' = i + 1
            /\ stages' = IF i = 0 THEN Append(stages, "render") ELSE stages
            /\ UNCHANGED <<pc, result>>
    /\ UNCHANGED <<pgnFiles, out, runs, args, png_folder_path, pgn, game, todo,
                   png_files, printed, emitted, calls, temp0>>

\* The statement main goes to after `stage`, with what entering it evaluates.
Goto(next, log) ==
    /\ pc' = IF next = "return" THEN "idle" ELSE next
    /\ result' = IF next = "return" THEN "returned" ELSE result
    /\ todo' = IF next = "raster" THEN Glob(temp, svg_folder_path, "svg") ELSE todo
    /\ temp0' = IF next = "raster" THEN temp ELSE temp0
    /\ stages' = IF next = "raster" THEN Append(log, "raster") ELSE log

\* game_to_svgs returns; main, line 104, enters svgs_to_pngs (line 54).
GameToSvgsReturn ==
    /\ pc = "render"
    /\ game # None
    /\ i = Len(mainline_moves(game)) + 1
    /\ Goto(main_after("render"), stages)
    /\ UNCHANGED <<pgnFiles, temp, out, runs, args, png_folder_path, pgn, game, board,
                   i, png_files, printed, staged, emitted, calls>>

\* svgs_to_pngs, lines 54-56, and svg_to_png: one vector file is rasterized.
\* glob yields the files in no particular order.
SvgToPng ==
    /\ pc = "raster"
    /\ \E svg_path \in todo :
          LET png_path == svg_to_png_path(svg_path,
                                          svgs_to_pngs_path(svg_path, png_folder_path))
          IN  /\ temp' = WriteFile(temp, png_path, svg2png(temp[svg_path]))
              /\ staged' = staged \cup {png_path}
              /\ todo' = todo \ {svg_path}
    /\ UNCHANGED <<pgnFiles, out, runs, pc, result, args, png_folder_path, pgn, game,
                   board, i, png_files, printed, stages, emitted, calls, temp0>>

\* svgs_to_pngs returns to main.
SvgsToPngsReturn ==
    /\ pc = "raster"
    /\ todo = {}
    /\ Goto(main_after("raster"), stages)
    /\ UNCHANGED <<pgnFiles, temp, out, runs, args, png_folder_path, pgn, game, board,
                   i, png_files, printed, staged, emitted, calls>>

\* pngs_to_gif, lines 65-68: the raster files are listed and sorted, the
\* animation file is opened for writing.
OpenWriter ==
    /\ pc = "encode"
    /\ png_files' = Sorted(Glob(temp, Get(png_folder_path), "png"))
    /\ out' = WriteFile(out, gif_path, NewGif)
    /\ emitted' = emitted \cup {gif_path}
    /\ stages' = Append(stages, "encode")
    /\ pc' = "append"
    /\ UNCHANGED <<pgnFiles, temp, runs, result, args, png_folder_path, pgn, game,
                   board, i, todo, printed, staged, calls, temp0>>

\* pngs_to_gif, lines 69-71.
AppendData ==
    /\ pc = "append"
    /\ png_files # <<>>
    /\ LET image == imread(temp[Head(png_files)])
       IN  out' = [out EXCEPT ![gif_path].frames = Append(@, image)]
    /\ png_files' = Tail(png_files)
    /\ UNCHANGED <<pgnFiles, temp, runs, pc, result, args, png_folder_path, pgn, game,
                   board, i, todo, printed, stages, staged, emitted, calls, temp0>>

\* pngs_to_gif, line 68: the with block ends and closes the writer.
CloseWriter ==
    /\ pc = "append"
    /\ png_files = <<>>
    /\ out' = [out EXCEPT ![gif_path].closed = TRUE]
    /\ pc' = "optimize"
    /\ UNCHANGED <<pgnFiles, temp, runs, result, args, png_folder_path, pgn, game,
                   board, i, todo, png_files, printed, stages, staged, emitted, calls,
                   temp0>>

\* pngs_to_gif, lines 73-81, then main, line 106.
Optimize ==
    /\ pc = "optimize"
    /\ LET r == optimize_branch(out, args.optimized)
       IN  /\ out' = r.out
           /\ emitted' = emitted \cup r.written
           /\ calls' = calls + r.calls
           /\ pc' = IF r.raised THEN "idle" ELSE main_after("optimize")
           /\ result' = IF r.raised THEN "ValueError" ELSE result
    /\ stages' = Append(stages, "optimize")
    /\ UNCHANGED <<pgnFiles, temp, runs, args, png_folder_path, pgn, game, board, i,
                   todo, png_files, printed, staged, temp0>>

\* main, line 106: shutil.rmtree(temp_path), then main returns.
Rmtree ==
    /\ pc = "rmtree"
    /\ temp' = EmptyDir
    /\ Goto(main_after("rmtree"), Append(stages, "rmtree"))
    /\ UNCHANGED <<pgnFiles, out, runs, args, png_folder_path, pgn, game, board, i,
                   png_files, printed, staged, emitted, calls>>

\* A library call raises (the disk is full, a file cannot be written, gifsicle
\* is not installed): main catches nothing.  Inside the with block of line 68
\* (imread or append_data raises) the writer is closed on the way out.
LibraryRaises ==
    /\ \/ pc \in {"render", "raster", "encode"}
       \/ pc = "append" /\ png_files # <<>>
       \/ pc = "optimize" /\ args.optimized \in {"new", "overwrite"}
    /\ out' = IF pc = "append" THEN [out EXCEPT ![gif_path].closed = TRUE] ELSE out
    /\ pc' = "idle"
    /\ result' = "LibraryError"
    /\ UNCHANGED <<pgnFiles, temp, runs, args, png_folder_path, pgn, game, board, i,
                   todo, png_files, printed, stages, staged, emitted, calls, temp0>>

Next ==
    \/ StartRun
    \/ ReadPgn
    \/ ParseGame
    \/ BoardToSvg
    \/ GameToSvgsReturn
    \/ SvgToPng
    \/ SvgsToPngsReturn
    \/ OpenWriter
    \/ AppendData
    \/ CloseWriter
    \/ Optimize
    \/ Rmtree
    \/ LibraryRaises

Spec == Init /\ [][Next]_vars

SpecLong == InitLong /\ [][Next]_vars

\* ------------------------------------------------- svgs_to_pngs on its own
\* A folder of vector files named 0..n, some of them missing, each the
\* rendering of a position of the game that opens with v.
SvgFolder(stems, v) ==
    [p \in {TempPath(svg_folder_path, Fmt(k), "svg") : k \in stems} |->
        chess_svg_board([j \in 1..Int(p.stem) |-> v])]

\* A raster file left by an earlier call, of a name no vector file has.
StalePng(folder) ==
    TempPath(IF folder = None THEN svg_folder_path ELSE Get(folder),
             Fmt(MaxMoves + 2), "png")

\* svgs_to_pngs(svg_folder_path, folder) is called, line 53, with or without a
\* png folder, on a folder of vector files; the png folder is empty or holds
\* a stale file.
InitRaster ==
    /\ pgnFiles = SmallFiles
    /\ out = EmptyDir
    /\ runs = 0
    /\ pc = "raster"
    /\ result = "none"
    /\ args = NoArgs
    /\ png_folder_path \in {None, main_png_folder_path}
    /\ \E stems \in SUBSET (0..MaxMoves + 1), v \in Openings, stale \in BOOLEAN :
          temp = IF stale
                 THEN WriteFile(SvgFolder(stems, v), StalePng(png_folder_path),
                                svg2png(chess_svg_board(<<>>)))
                 ELSE SvgFolder(stems, v)
    /\ pgn = <<>>
    /\ game = None
    /\ board = <<>>
    /\ i = 0
    /\ todo = Glob(temp, svg_folder_path, "svg")
    /\ png_files = <<>>
    /\ printed = FALSE
    /\ stages = <<"raster">>
    /\ staged = {}
    /\ emitted = {}
    /\ calls = 0
    /\ temp0 = temp

\* svgs_to_pngs returns to its caller.
SvgsToPngsReturnToCaller ==
    /\ pc = "raster"
    /\ todo = {}
    /\ pc' = "idle"
    /\ result' = "returned"
    /\ UNCHANGED <<pgnFiles, temp, out, runs, args, png_folder_path, pgn, game, board,
                   i, todo, png_files, printed, stages, staged, emitted, calls, temp0>>

NextRaster ==
    \/ SvgToPng
    \/ SvgsToPngsReturnToCaller

SpecRaster == InitRaster /\ [][NextRaster]_vars

\* ------------------------------------------------------------ properties
Range(f) == {f[k] : k \in DOMAIN f}

\* The run's game has N mainline moves.
N == Len(mainline_moves(game))

\* The frame of the position after the first k moves of the run's game.
Rendering(k) == imread(svg2png(chess_svg_board(SubSeq(mainline_moves(game), 1, k))))

\* What a run of the game in a clean working directory assembles.
OwnFrames == [k \in 1..N + 1 |-> Rendering(k - 1)]

FrameNames == {Fmt(k) : k \in 0..N}

Stems(paths, ext) == {p.stem : p \in {q \in paths : q.ext = ext}}

\* This run has appended every raster file to the animation and closed it.
Assembled ==
    /\ game # None
    /\ gif_path \in emitted
    /\ out[gif_path].closed
    /\ png_files = <<>>

\* This run's pngs_to_gif has returned.
PngsToGifReturned == "optimize" \in Range(stages) /\ result # "ValueError"

\* main is not running and has run.
MainEnded == pc = "idle" /\ result # "none"

PipelineOrder == <<"read", "parse", "render", "raster", "encode", "optimize", "rmtree">>

\* C1: a run on a game of N moves that reaches animation assembly has written
\* exactly the N+1 renderings 0..N and an animation of exactly N+1 frames,
\* whatever earlier runs left in the working directory.
C1_FramesPerMove ==
    Assembled =>
        /\ Stems(staged, "svg") = FrameNames
        /\ Len(out[gif_path].frames) = N + 1

\* C2: once main has ended, by completion, by the early return or by an
\* error, the working directory temp holds no file.
C2_TempRemoved == MainEnded => DOMAIN temp = {}

\* C3: when the optimized option is none of new, overwrite, none, the
\* ValueError is raised with no animation file written at the output path.
C3_ErrorBeforeOutput == result = "ValueError" => gif_path \notin emitted

\* C4: when no game is parsed, main prints the diagnostic and returns without
\* raising, having written no animation, no optimized copy and no staging
\* file, and having entered none of rendering, rasterization, encoding.
C4_NoGameNoOutput ==
    ("parse" \in Range(stages) /\ game = None) =>
        /\ pc = "idle"
        /\ result = "returned early"
        /\ printed
        /\ emitted = {}
        /\ staged = {}
        /\ calls = 0
        /\ stages = <<"read", "parse">>

C4_Witness ==
    /\ MainEnded
    /\ args.pgn_path = EmptyPgnPath
    /\ "parse" \in Range(stages)
    /\ result = "returned early"

\* C5: when pngs_to_gif has returned, new has written two files (the animation,
\* not optimized, and its optimized copy <stem>_optimized<suffix> beside it),
\* overwrite one file (the animation, optimized in place), none one file (the
\* animation, with the optimization never invoked).
C5_OutputFiles ==
    PngsToGifReturned =>
        LET copy == [parent |-> gif_path.parent, stem |-> "game_optimized",
                     suffix |-> gif_path.suffix]
        IN  /\ args.optimized = "new" =>
                /\ emitted = {gif_path, copy}
                /\ ~out[gif_path].optimized
                /\ out[copy] = [out[gif_path] EXCEPT !.optimized = TRUE]
                /\ calls = 1
            /\ args.optimized = "overwrite" =>
                /\ emitted = {gif_path}
                /\ out[gif_path].optimized
                /\ calls = 1
            /\ args.optimized = "none" =>
                /\ emitted = {gif_path}
                /\ ~out[gif_path].optimized
                /\ calls = 0

C5_Witness == PngsToGifReturned /\ MainEnded /\ args.optimized = "new" /\ N >= 1

\* C6: the k-th frame appended (from 0) is the rendering of the position after
\* the first k moves, for every k in 0..N, and none is dropped; also for the
\* games of 10 moves and more, whose file names have two digits.
C6_FramesInMoveOrder ==
    (game # None /\ gif_path \in emitted) =>
        LET frames == out[gif_path].frames
        IN  /\ \A k \in 0..N : k < Len(frames) => frames[k + 1] = Rendering(k)
            /\ Assembled => Len(frames) >= N + 1

C6_Witness == Assembled /\ N >= 10 /\ Len(out[gif_path].frames) = N + 1

\* C7: a notation file that does not exist makes read_pgn_file raise, main
\* lets the error through, and the run has written no staging file and no
\* output file; main returns normally only when no game was parsed or when
\* the whole pipeline has run.
C7_ReadErrorPropagates ==
    /\ ("read" \in Range(stages) /\ args.pgn_path \notin DOMAIN pgnFiles) =>
          /\ MainEnded
          /\ result = "FileNotFoundError"
          /\ stages = <<"read">>
          /\ staged = {}
          /\ emitted = {}
          /\ ~printed
    /\ (MainEnded /\ result = "returned early") =>
          /\ args.pgn_path \in DOMAIN pgnFiles
          /\ pgn_to_game(pgnFiles[args.pgn_path]) = None
    /\ (MainEnded /\ result = "returned") => stages = PipelineOrder

C7_Witness ==
    /\ MainEnded
    /\ args.pgn_path = MissingPgnPath
    /\ result = "FileNotFoundError"

\* C8: the frames a run assembles depend on its notation file alone: they are
\* the frames a run of the same file assembles in a clean working directory
\* (its own N+1 frames, each rendered from its own game), whatever the
\* earlier runs were.
C8_RunIndependent == Assembled => out[gif_path].frames = OwnFrames

\* C9: the stages of a run happen in pipeline order: read and parse before any
\* staging file is written, all N+1 renderings before the first rasterization
\* starts, all rasterizations before the animation file is opened, the
\* optimization only after the animation is written and closed, the removal
\* of temp only after the optimization step has returned.
C9_PipelineOrder ==
    /\ stages = SubSeq(PipelineOrder, 1, Len(stages))
    /\ staged # {} => Len(stages) >= 3
    /\ "raster" \in Range(stages) => Stems(staged, "svg") = FrameNames
    /\ Stems(staged, "png") # {} => "raster" \in Range(stages)
    /\ gif_path \in emitted =>
          /\ todo = {}
          /\ Stems(staged, "png") = Stems(DOMAIN temp0, "svg")
    /\ ("optimize" \in Range(stages) \/ calls > 0) =>
          /\ gif_path \in emitted
          /\ out[gif_path].closed
          /\ png_files = <<>>
    /\ "rmtree" \in Range(stages) => PngsToGifReturned
    /\ (staged # {} /\ DOMAIN temp = {}) => "rmtree" \in Range(stages)

C9_Witness ==
    /\ MainEnded
    /\ result = "returned"
    /\ stages = PipelineOrder
    /\ args.optimized = "new"
    /\ N >= 1

\* C10: when svgs_to_pngs has returned it has written exactly one raster file
\* per vector file of the svg folder, of the same stem and the extension .png,
\* in the png folder when one is given and beside the vector file otherwise;
\* no vector file is removed or changed; and when the png folder was empty at
\* the call, the stems of its .png files are the stems of the .svg files.
C10_OnePngPerSvg ==
    (pc = "idle" /\ result = "returned") =>
        LET folder == IF png_folder_path = None THEN svg_folder_path
                      ELSE Get(png_folder_path)
            svgs == Glob(temp0, svg_folder_path, "svg")
        IN  /\ staged = {TempPath(folder, p.stem, "png") : p \in svgs}
            /\ Cardinality(staged) = Cardinality(svgs)
            /\ \A p \in svgs :
                  temp[TempPath(folder, p.stem, "png")] = svg2png(temp0[p])
            /\ Glob(temp, svg_folder_path, "svg") = svgs
            /\ \A p \in svgs : temp[p] = temp0[p]
            /\ \A p \in DOMAIN temp0 : p \in DOMAIN temp
            /\ Glob(temp0, folder, "png") = {} =>
                  Stems(Glob(temp, folder, "png"), "png") = Stems(svgs, "svg")

C10_Witness ==
    /\ pc = "idle"
    /\ result = "returned"
    /\ png_folder_path = None
    /\ Cardinality(Glob(temp0, svg_folder_path, "svg")) >= 2
    /\ Glob(temp0, svg_folder_path, "png") = {}

====
